---- MODULE Spec2Model ----
(***************************************************************************)
(* Monte Carlo portfolio evaluation: the batch service                     *)
(* (src/src/service.rs, SimulationServiceImpl::run_batch) and the          *)
(* population evaluator (src/src/main.rs, evaluate_population_performance).*)
(*                                                                         *)
(* Numbers are exact: metrics are integers, averages are reduced           *)
(* fractions <<num, den>>.  Floating-point rounding and NaN are outside    *)
(* the model.                                                              *)
(***************************************************************************)
EXTENDS Integers, Sequences, FiniteSets, TLC

(***************************************************************************)
(* Bounds of the model.                                                    *)
(***************************************************************************)
\* largest iteration count / simulations_per_generation a request may carry
MaxIterations == 2
\* threads of the blocking pool that serves spawn_blocking
PoolSize == 1

\* the run_batch calls in flight: two callers, enough to saturate a pool of one
Calls == {1, 2}

(***************************************************************************)
(* Input data.                                                             *)
(***************************************************************************)
\* weight vectors over two assets
WeightsA == <<1, 0>>
WeightsB == <<0, 1>>
WeightsC == <<1, 1>>

\* populations a caller may submit (a portfolio is its weight vector)
Populations == { <<>>, <<WeightsA>>, <<WeightsA, WeightsB>>, <<WeightsC, WeightsA>> }

\* scenarios the sampler may draw: rows are periods, columns are assets
ScenarioUp   == << <<3, 1>>, <<1, -1>> >>
ScenarioDown == << <<-2, 2>>, <<0, 2>> >>
Scenarios == { ScenarioUp, ScenarioDown }

\* request configurations: money_to_invest, risk_free_rate, time_horizon_in_days
Configs == { [money_to_invest |-> 1, risk_free_rate |-> 0, time_horizon_in_days |-> 365],
             [money_to_invest |-> 0, risk_free_rate |-> 0, time_horizon_in_days |-> 365],
             [money_to_invest |-> 1, risk_free_rate |-> 0, time_horizon_in_days |-> 0] }

(***************************************************************************)
(* Sequence helpers.                                                       *)
(***************************************************************************)
RECURSIVE SumSeq(_)
SumSeq(s) == IF s = <<>> THEN 0 ELSE Head(s) + SumSeq(Tail(s))

Abs(x) == IF x < 0 THEN -x ELSE x

Ones(n) == [idx \in 1..n |-> 1]
Zeros(n) == [idx \in 1..n |-> 0]

(***************************************************************************)
(* Exact fractions <<num, den>> in lowest terms, den > 0.  <<-1, 0>> and   *)
(* <<1, 0>> stand for f64::NEG_INFINITY and f64::INFINITY.                 *)
(***************************************************************************)
RECURSIVE GCD(_, _)
GCD(a, b) == IF b = 0 THEN a ELSE GCD(b, a % b)

Rat(n, d) == LET g == GCD(Abs(n), d) IN << n \div g, d \div g >>

NEG_INFINITY == << -1, 0 >>
INFINITY == << 1, 0 >>

RatLeq(a, b) == a[1] * b[2] <= b[1] * a[2]
RatAdd(a, b) == Rat(a[1] * b[2] + b[1] * a[2], a[2] * b[2])
RatDivInt(a, k) == Rat(a[1], a[2] * k)
RatMax(a, b) == IF RatLeq(a, b) THEN b ELSE a
RatMin(a, b) == IF RatLeq(a, b) THEN a ELSE b

RECURSIVE RatSum(_)
RatSum(s) == IF s = <<>> THEN Rat(0, 1) ELSE RatAdd(Head(s), RatSum(Tail(s)))

(***************************************************************************)
(* bincode: a Vec is its length followed by its elements.                  *)
(***************************************************************************)
RECURSIVE SerializeWeights(_)
SerializeWeights(w) == IF w = <<>> THEN <<>> ELSE <<Head(w)>> \o SerializeWeights(Tail(w))

RECURSIVE SerializePortfolios(_)
SerializePortfolios(ps) ==
    IF ps = <<>> THEN <<>>
    ELSE <<Len(Head(ps))>> \o SerializeWeights(Head(ps)) \o SerializePortfolios(Tail(ps))

Serialize(ps) == <<Len(ps)>> \o SerializePortfolios(ps)

\* reads `count` portfolios from `bytes`; ok only if the bytes are used up exactly
RECURSIVE ReadPortfolios(_, _, _)
ReadPortfolios(bytes, count, acc) ==
    IF count = 0
    THEN [ok |-> bytes = <<>>, value |-> acc]
    ELSE IF bytes = <<>> THEN [ok |-> FALSE, value |-> <<>>]
    ELSE LET len == Head(bytes)
             rest == Tail(bytes)
         IN  IF len < 0 \/ Len(rest) < len
             THEN [ok |-> FALSE, value |-> <<>>]
             ELSE ReadPortfolios(SubSeq(rest, len + 1, Len(rest)), count - 1,
                                 Append(acc, SubSeq(rest, 1, len)))

Deserialize(bytes) ==
    IF bytes = <<>> \/ Head(bytes) < 0
    THEN [ok |-> FALSE, value |-> <<>>]
    ELSE ReadPortfolios(Tail(bytes), Head(bytes), <<>>)

\* blobs that do not decode: truncated, trailing bytes
MalformedBlobs == { <<2, 2, 1, 0>>, <<1, 2, 1, 0, 7>> }

Blobs == { Serialize(p) : p \in Populations } \cup MalformedBlobs

(***************************************************************************)
(* Performance calculator (aegis_athena_contracts, not in src/): modelled  *)
(* from section 4.1 of the design.  For two-period scenarios and a horizon *)
(* of 365 days the annualised figures are integers: periods_per_year = 2,  *)
(* annualized_return = x1 + x2, annualized_volatility = |x1 - x2|.  The     *)
(* Sharpe ratio is kept in tenths, rounded down.                           *)
(***************************************************************************)
RECURSIVE Dot(_, _)
Dot(w, row) == IF w = <<>> \/ row = <<>> THEN 0
               ELSE Head(w) * Head(row) + Dot(Tail(w), Tail(row))

DollarReturns(scenario, weights, money) ==
    [t \in 1..Len(scenario) |-> money * Dot(weights, scenario[t])]

\* the validation of step 1; the caller reads the record directly, so a
\* failure is a panic
PerformanceFaults(scenario, cfg) ==
    \/ cfg.time_horizon_in_days = 0
    \/ cfg.money_to_invest = 0
    \/ Len(scenario) < 2

\* <<annualized_return, percent_annualized_volatility, sharpe_ratio>>
compute_portfolio_performance(scenario, weights, cfg) ==
    LET x == DollarReturns(scenario, weights, cfg.money_to_invest)
        annualized_return == (SumSeq(x) * 365) \div cfg.time_horizon_in_days
        annualized_volatility == (Abs(x[1] - x[2]) * 365) \div cfg.time_horizon_in_days
        risk_free == cfg.money_to_invest * cfg.risk_free_rate
        sharpe == IF annualized_volatility > 0
                  THEN (10 * (annualized_return - risk_free)) \div annualized_volatility
                  ELSE 0
    IN  << annualized_return, annualized_volatility \div cfg.money_to_invest, sharpe >>

(***************************************************************************)
(* State of the batch service.                                             *)
(***************************************************************************)
VARIABLES
    pc,                \* where each call is
    request,           \* the SimulationBatchRequest of each call
    portfolios,        \* the decoded population
    sum_returns, sum_vols, sum_sharpes,   \* accumulators
    last_scenario,
    i,                 \* loop index
    scenario_returns,  \* the scenario of the current trial
    metrics,           \* the collected vector of the parallel map, by index
    drawn,             \* history: the scenarios sampler.sample_returns() returned
    blocking_queue,    \* spawn_blocking tasks waiting for a pool thread
    response,          \* what the caller receives
    server_alive,      \* the serving process
    handler_dropped,   \* the caller went away and the handler future was dropped
    \* evaluate_population_performance
    eval_pc,
    population, config,
    accumulated_returns, accumulated_volatilities, accumulated_sharpe_ratios,
    last_scenario_returns,
    eval_i,                            \* loop index
    eval_scenario_returns,             \* the scenario of the current trial
    performance_metrics_in_scenario,   \* the collected vector of the parallel map
    eval_drawn,                        \* history: the scenarios the sampler returned
    result                             \* the PopulationEvaluationResult, or how the call ended

svcVars == << pc, request, portfolios, sum_returns, sum_vols, sum_sharpes, last_scenario,
              i, scenario_returns, metrics, drawn, blocking_queue, response, server_alive,
              handler_dropped >>

evalVars == << eval_pc, population, config, accumulated_returns, accumulated_volatilities,
               accumulated_sharpe_ratios, last_scenario_returns, eval_i, eval_scenario_returns,
               performance_metrics_in_scenario, eval_drawn, result >>

vars == << svcVars, evalVars >>

NoRequest == [portfolios_blob |-> <<>>,
              config |-> [money_to_invest |-> 0, risk_free_rate |-> 0, time_horizon_in_days |-> 0],
              iterations |-> 0]
NoConfig == [money_to_invest |-> 0, risk_free_rate |-> 0, time_horizon_in_days |-> 0,
             simulations_per_generation |-> 1]
NoResult == [status |-> "none"]
NoResponse == [status |-> "none"]
Pending == <<>>

Requests == [portfolios_blob : Blobs, config : Configs, iterations : 0..MaxIterations]

\* calls whose closure occupies a blocking-pool thread
Running == { c \in Calls : pc[c] \in {"loop", "map"} }

Init ==
    /\ pc = [c \in Calls |-> "idle"]
    /\ request = [c \in Calls |-> NoRequest]
    /\ portfolios = [c \in Calls |-> <<>>]
    /\ sum_returns = [c \in Calls |-> <<>>]
    /\ sum_vols = [c \in Calls |-> <<>>]
    /\ sum_sharpes = [c \in Calls |-> <<>>]
    /\ last_scenario = [c \in Calls |-> <<>>]
    /\ i = [c \in Calls |-> 0]
    /\ scenario_returns = [c \in Calls |-> <<>>]
    /\ metrics = [c \in Calls |-> <<>>]
    /\ drawn = [c \in Calls |-> <<>>]
    /\ blocking_queue = <<>>
    /\ response = [c \in Calls |-> NoResponse]
    /\ server_alive = TRUE
    /\ handler_dropped = [c \in Calls |-> FALSE]
    /\ eval_pc = "idle"
    /\ population = <<>>
    /\ config = NoConfig
    /\ accumulated_returns = <<>>
    /\ accumulated_volatilities = <<>>
    /\ accumulated_sharpe_ratios = <<>>
    /\ last_scenario_returns = <<>>
    /\ eval_i = 0
    /\ eval_scenario_returns = <<>>
    /\ performance_metrics_in_scenario = <<>>
    /\ eval_drawn = <<>>
    /\ result = NoResult

(***************************************************************************)
(* run_batch, step by step.                                                *)
(***************************************************************************)
\* a request reaches the handler (line 20)
Arrive(c) ==
    /\ server_alive
    /\ pc[c] = "idle"
    /\ \E req \in Requests :
          request' = [request EXCEPT ![c] = req]
    /\ pc' = [pc EXCEPT ![c] = "handler"]
    /\ UNCHANGED << portfolios, sum_returns, sum_vols, sum_sharpes, last_scenario, i,
                    scenario_returns, metrics, drawn, blocking_queue, response, server_alive >>
    /\ UNCHANGED handler_dropped
    /\ UNCHANGED evalVars

DecodeErrorAsInternal == "internal"
\* the status a decode failure maps to (line 25)
DecodeErrorStatus == "invalid_argument"

DecodeFailAfterBatches(c) ==
    /\ server_alive
    /\ pc[c] = "handler"
    /\ Running = {}
    /\ ~Deserialize(request[c].portfolios_blob).ok
    /\ response' = [response EXCEPT ![c] = [status |-> DecodeErrorStatus]]
    /\ pc' = [pc EXCEPT ![c] = "done"]
    /\ UNCHANGED << request, portfolios, sum_returns, sum_vols, sum_sharpes, last_scenario, i,
                    scenario_returns, metrics, drawn, blocking_queue, server_alive >>
    /\ UNCHANGED handler_dropped
    /\ UNCHANGED evalVars

\* bincode::deserialize fails: the ? operator returns the error (lines 24-25)
DecodeFail(c) ==
    /\ server_alive
    /\ pc[c] = "handler"
    /\ ~Deserialize(request[c].portfolios_blob).ok
    /\ response' = [response EXCEPT ![c] = [status |-> DecodeErrorStatus]]
    /\ pc' = [pc EXCEPT ![c] = "done"]
    /\ UNCHANGED << request, portfolios, sum_returns, sum_vols, sum_sharpes, last_scenario, i,
                    scenario_returns, metrics, drawn, blocking_queue, server_alive >>
    /\ UNCHANGED handler_dropped
    /\ UNCHANGED evalVars

\* decode, prepare the accumulators, hand the closure to spawn_blocking (lines 24-40)
SpawnBlocking(c) ==
    /\ server_alive
    /\ pc[c] = "handler"
    /\ Deserialize(request[c].portfolios_blob).ok
    /\ LET ps == Deserialize(request[c].portfolios_blob).value
           n == Len(ps)
       IN  /\ portfolios' = [portfolios EXCEPT ![c] = ps]
           /\ sum_returns' = [sum_returns EXCEPT ![c] = Zeros(n)]
           /\ sum_vols' = [sum_vols EXCEPT ![c] = Zeros(n)]
           /\ sum_sharpes' = [sum_sharpes EXCEPT ![c] = Zeros(n)]
    /\ last_scenario' = [last_scenario EXCEPT ![c] = <<>>]
    /\ blocking_queue' = Append(blocking_queue, c)
    /\ pc' = [pc EXCEPT ![c] = "queued"]
    /\ UNCHANGED << request, i, scenario_returns, metrics, drawn, response, server_alive >>
    /\ UNCHANGED handler_dropped
    /\ UNCHANGED evalVars

WorkerStartUnbounded(c) ==
    /\ server_alive
    /\ blocking_queue # <<>>
    /\ Head(blocking_queue) = c
    /\ blocking_queue' = Tail(blocking_queue)
    /\ i' = [i EXCEPT ![c] = 0]
    /\ pc' = [pc EXCEPT ![c] = "loop"]
    /\ UNCHANGED << request, portfolios, sum_returns, sum_vols, sum_sharpes, last_scenario,
                    scenario_returns, metrics, drawn, response, server_alive >>
    /\ UNCHANGED handler_dropped
    /\ UNCHANGED evalVars

\* a free thread of a blocking pool of `threads` threads takes the oldest
\* queued closure (line 40)
StartOnPool(c, threads) ==
    /\ server_alive
    /\ blocking_queue # <<>>
    /\ Head(blocking_queue) = c
    /\ Cardinality(Running) < threads
    /\ blocking_queue' = Tail(blocking_queue)
    /\ i' = [i EXCEPT ![c] = 0]
    /\ pc' = [pc EXCEPT ![c] = "loop"]
    /\ UNCHANGED << request, portfolios, sum_returns, sum_vols, sum_sharpes, last_scenario,
                    scenario_returns, metrics, drawn, response, server_alive >>
    /\ UNCHANGED handler_dropped
    /\ UNCHANGED evalVars

LoopRunsOnceMore(idx, iterations) == idx <= iterations
\* the range of line 41, for i in 0..iterations: whether the body runs for idx
LoopContinues(idx, iterations) == idx < iterations

IsFirstTrial(idx, iterations) == idx = 0
\* the test of line 44; evaluated only inside the loop, where iterations >= 1
IsLastTrial(idx, iterations) == idx = iterations - 1

SampleScenarioResample(c) ==
    /\ server_alive
    /\ pc[c] = "loop"
    /\ LoopContinues(i[c], request[c].iterations)
    /\ \E s \in Scenarios, again \in Scenarios :
          /\ scenario_returns' = [scenario_returns EXCEPT ![c] = s]
          /\ drawn' = [drawn EXCEPT ![c] =
                          IF IsLastTrial(i[c], request[c].iterations)
                          THEN Append(Append(@, s), again) ELSE Append(@, s)]
          /\ last_scenario' = [last_scenario EXCEPT ![c] =
                                  IF IsLastTrial(i[c], request[c].iterations) THEN again ELSE @]
    /\ metrics' = [metrics EXCEPT ![c] = [idx \in 1..Len(portfolios[c]) |-> Pending]]
    /\ pc' = [pc EXCEPT ![c] = "map"]
    /\ UNCHANGED << request, portfolios, sum_returns, sum_vols, sum_sharpes, i,
                    blocking_queue, response, server_alive >>
    /\ UNCHANGED handler_dropped
    /\ UNCHANGED evalVars

\* one pass of the loop head: sample a scenario, keep it if this is the last trial
\* (lines 41-46), and start the parallel map
SampleScenario(c) ==
    /\ server_alive
    /\ pc[c] = "loop"
    /\ LoopContinues(i[c], request[c].iterations)
    /\ \E s \in Scenarios :
          /\ scenario_returns' = [scenario_returns EXCEPT ![c] = s]
          /\ drawn' = [drawn EXCEPT ![c] = Append(@, s)]
          /\ last_scenario' = [last_scenario EXCEPT ![c] =
                                  IF IsLastTrial(i[c], request[c].iterations) THEN s ELSE @]
    /\ metrics' = [metrics EXCEPT ![c] = [idx \in 1..Len(portfolios[c]) |-> Pending]]
    /\ pc' = [pc EXCEPT ![c] = "map"]
    /\ UNCHANGED << request, portfolios, sum_returns, sum_vols, sum_sharpes, i,
                    blocking_queue, response, server_alive >>
    /\ UNCHANGED handler_dropped
    /\ UNCHANGED evalVars

CollectSlotReversed(idx, n) == n + 1 - idx
\* the slot of the collected vector that the item at position idx fills (lines 49-61)
CollectSlot(idx, n) == idx

\* a rayon worker scores one portfolio of the current trial (lines 51-60)
ScorePortfolio(c) ==
    /\ server_alive
    /\ pc[c] = "map"
    /\ \E idx \in 1..Len(portfolios[c]) :
          /\ metrics[c][CollectSlot(idx, Len(portfolios[c]))] = Pending
          /\ ~PerformanceFaults(scenario_returns[c], request[c].config)
          /\ metrics' = [metrics EXCEPT ![c][CollectSlot(idx, Len(portfolios[c]))] =
                            compute_portfolio_performance(scenario_returns[c], portfolios[c][idx],
                                                          request[c].config)]
    /\ UNCHANGED << pc, request, portfolios, sum_returns, sum_vols, sum_sharpes, last_scenario, i,
                    scenario_returns, drawn, blocking_queue, response, server_alive >>
    /\ UNCHANGED handler_dropped
    /\ UNCHANGED evalVars

\* what a panic inside the closure does to the serving process: tokio catches
\* it at the task boundary and stores it in the JoinHandle (lines 40, 72)
AliveAfterPanic == TRUE

\* compute_portfolio_performance panics inside the parallel map; rayon
\* re-raises it on the pool thread, the closure unwinds
ScorePanic(c) ==
    /\ server_alive
    /\ pc[c] = "map"
    /\ \E idx \in 1..Len(portfolios[c]) :
          /\ metrics[c][idx] = Pending
          /\ PerformanceFaults(scenario_returns[c], request[c].config)
    /\ pc' = [pc EXCEPT ![c] = "panicked"]
    /\ server_alive' = AliveAfterPanic
    /\ UNCHANGED << request, portfolios, sum_returns, sum_vols, sum_sharpes, last_scenario, i,
                    scenario_returns, metrics, drawn, blocking_queue, response >>
    /\ UNCHANGED handler_dropped
    /\ UNCHANGED evalVars

AccumulateShared(c) ==
    /\ server_alive
    /\ pc[c] = "map"
    /\ \A idx \in 1..Len(portfolios[c]) : metrics[c][idx] # Pending
    /\ sum_returns' = [d \in Calls |->
                          IF Len(sum_returns[d]) = Len(portfolios[c])
                          THEN [idx \in 1..Len(portfolios[c]) |->
                                   sum_returns[d][idx] + metrics[c][idx][1]]
                          ELSE sum_returns[d]]
    /\ sum_vols' = [d \in Calls |->
                       IF Len(sum_vols[d]) = Len(portfolios[c])
                       THEN [idx \in 1..Len(portfolios[c]) |->
                                sum_vols[d][idx] + metrics[c][idx][2]]
                       ELSE sum_vols[d]]
    /\ sum_sharpes' = [d \in Calls |->
                          IF Len(sum_sharpes[d]) = Len(portfolios[c])
                          THEN [idx \in 1..Len(portfolios[c]) |->
                                   sum_sharpes[d][idx] + metrics[c][idx][3]]
                          ELSE sum_sharpes[d]]
    /\ i' = [i EXCEPT ![c] = @ + 1]
    /\ pc' = [pc EXCEPT ![c] = "loop"]
    /\ UNCHANGED << request, portfolios, last_scenario, scenario_returns, metrics, drawn,
                    blocking_queue, response, server_alive >>
    /\ UNCHANGED handler_dropped
    /\ UNCHANGED evalVars

OverwriteMetric(acc, m) == m
\* lines 65-67: acc[idx] += m
AddMetric(acc, m) == acc + m

\* the sequential accumulation after collect (lines 63-68), then the next pass
Accumulate(c) ==
    /\ server_alive
    /\ pc[c] = "map"
    /\ \A idx \in 1..Len(portfolios[c]) : metrics[c][idx] # Pending
    /\ sum_returns' = [sum_returns EXCEPT ![c] =
                          [idx \in 1..Len(portfolios[c]) |-> AddMetric(@[idx], metrics[c][idx][1])]]
    /\ sum_vols' = [sum_vols EXCEPT ![c] =
                       [idx \in 1..Len(portfolios[c]) |-> AddMetric(@[idx], metrics[c][idx][2])]]
    /\ sum_sharpes' = [sum_sharpes EXCEPT ![c] =
                          [idx \in 1..Len(portfolios[c]) |-> AddMetric(@[idx], metrics[c][idx][3])]]
    /\ i' = [i EXCEPT ![c] = @ + 1]
    /\ pc' = [pc EXCEPT ![c] = "loop"]
    /\ UNCHANGED << request, portfolios, last_scenario, scenario_returns, metrics, drawn,
                    blocking_queue, response, server_alive >>
    /\ UNCHANGED handler_dropped
    /\ UNCHANGED evalVars

\* the loop is over: the closure returns its tuple (line 70), the thread is free
WorkerReturn(c) ==
    /\ server_alive
    /\ pc[c] = "loop"
    /\ ~LoopContinues(i[c], request[c].iterations)
    /\ pc' = [pc EXCEPT ![c] = "returned"]
    /\ UNCHANGED << request, portfolios, sum_returns, sum_vols, sum_sharpes, last_scenario, i,
                    scenario_returns, metrics, drawn, blocking_queue, response, server_alive >>
    /\ UNCHANGED handler_dropped
    /\ UNCHANGED evalVars

\* the handler resumes with the tuple and builds the reply (lines 72-82)
AwaitOk(c) ==
    /\ server_alive
    /\ pc[c] = "returned"
    /\ ~handler_dropped[c]
    /\ response' = [response EXCEPT ![c] =
                       [status |-> "ok",
                        sum_returns |-> sum_returns[c],
                        sum_volatilities |-> sum_vols[c],
                        sum_sharpes |-> sum_sharpes[c],
                        last_scenario |-> last_scenario[c]]]
    /\ pc' = [pc EXCEPT ![c] = "done"]
    /\ UNCHANGED << request, portfolios, sum_returns, sum_vols, sum_sharpes, last_scenario, i,
                    scenario_returns, metrics, drawn, blocking_queue, server_alive >>
    /\ UNCHANGED handler_dropped
    /\ UNCHANGED evalVars

JoinErrorSwallowed == "ok"
\* the status a JoinError maps to (line 73)
JoinErrorStatus == "internal"

\* the handler resumes with a JoinError (lines 72-73)
AwaitPanic(c) ==
    /\ server_alive
    /\ pc[c] = "panicked"
    /\ ~handler_dropped[c]
    /\ response' = [response EXCEPT ![c] = [status |-> JoinErrorStatus]]
    /\ pc' = [pc EXCEPT ![c] = "done"]
    /\ UNCHANGED << request, portfolios, sum_returns, sum_vols, sum_sharpes, last_scenario, i,
                    scenario_returns, metrics, drawn, blocking_queue, server_alive >>
    /\ UNCHANGED handler_dropped
    /\ UNCHANGED evalVars

DisconnectAborts(c) ==
    /\ server_alive
    /\ pc[c] \in {"queued", "loop", "map", "returned", "panicked"}
    /\ ~handler_dropped[c]
    /\ handler_dropped' = [handler_dropped EXCEPT ![c] = TRUE]
    /\ pc' = [pc EXCEPT ![c] = "done"]
    /\ blocking_queue' = SelectSeq(blocking_queue, LAMBDA d : d # c)
    /\ UNCHANGED << request, portfolios, sum_returns, sum_vols, sum_sharpes, last_scenario, i,
                    scenario_returns, metrics, drawn, response, server_alive >>
    /\ UNCHANGED evalVars

\* the caller disconnects while the handler is suspended at .await (line 72):
\* the future and its JoinHandle are dropped, which detaches the closure
Disconnect(c) ==
    /\ server_alive
    /\ pc[c] \in {"queued", "loop", "map", "returned", "panicked"}
    /\ ~handler_dropped[c]
    /\ handler_dropped' = [handler_dropped EXCEPT ![c] = TRUE]
    /\ UNCHANGED << pc, request, portfolios, sum_returns, sum_vols, sum_sharpes, last_scenario, i,
                    scenario_returns, metrics, drawn, blocking_queue, response, server_alive >>
    /\ UNCHANGED evalVars

\* the closure of a dropped handler has ended: nobody awaits its tuple or its
\* panic, the runtime drops it (lines 70-72)
DiscardResult(c) ==
    /\ server_alive
    /\ pc[c] \in {"returned", "panicked"}
    /\ handler_dropped[c]
    /\ pc' = [pc EXCEPT ![c] = "done"]
    /\ UNCHANGED << request, portfolios, sum_returns, sum_vols, sum_sharpes, last_scenario, i,
                    scenario_returns, metrics, drawn, blocking_queue, response, server_alive,
                    handler_dropped >>
    /\ UNCHANGED evalVars

\* the pool has PoolSize threads
WorkerStart(c) == StartOnPool(c, PoolSize)

\* the pool has a thread for every call, as the runtime's default pool has
WorkerStartAmple(c) == StartOnPool(c, Cardinality(Calls))

run_batch(c) ==
    \/ Arrive(c)
    \/ DecodeFail(c)
    \/ SpawnBlocking(c)
    \/ WorkerStart(c)
    \/ SampleScenario(c)
    \/ ScorePortfolio(c)
    \/ ScorePanic(c)
    \/ Accumulate(c)
    \/ WorkerReturn(c)
    \/ AwaitOk(c)
    \/ AwaitPanic(c)

(***************************************************************************)
(* evaluate_population_performance, step by step.                          *)
(***************************************************************************)
\* simulations_per_generation >= 1, as the configuration requires
EvalConfigs == { [money_to_invest |-> c.money_to_invest, risk_free_rate |-> c.risk_free_rate,
                  time_horizon_in_days |-> c.time_horizon_in_days,
                  simulations_per_generation |-> k] : c \in Configs, k \in 1..MaxIterations }

\* the caller enters the function with a population and a config (lines 11-15)
EvalCall ==
    /\ eval_pc = "idle"
    /\ \E p \in Populations, cfg \in EvalConfigs :
          /\ population' = p
          /\ config' = cfg
    /\ eval_pc' = "entry"
    /\ UNCHANGED << accumulated_returns, accumulated_volatilities, accumulated_sharpe_ratios,
                    last_scenario_returns, eval_i, eval_scenario_returns,
                    performance_metrics_in_scenario, eval_drawn, result >>
    /\ UNCHANGED svcVars

\* how the call ends on an empty population: panic! (lines 16-20)
EmptyPopulationOutcome == "panic"

EvalEmptyPopulation ==
    /\ eval_pc = "entry"
    /\ Len(population) = 0
    /\ result' = [status |-> EmptyPopulationOutcome]
    /\ eval_pc' = "aborted"
    /\ UNCHANGED << population, config, accumulated_returns, accumulated_volatilities,
                    accumulated_sharpe_ratios, last_scenario_returns, eval_i,
                    eval_scenario_returns, performance_metrics_in_scenario, eval_drawn >>
    /\ UNCHANGED svcVars

\* the accumulators are initialised (lines 22-28)
EvalPrepare ==
    /\ eval_pc = "entry"
    /\ Len(population) # 0
    /\ accumulated_returns' = Zeros(Len(population))
    /\ accumulated_volatilities' = Zeros(Len(population))
    /\ accumulated_sharpe_ratios' = Zeros(Len(population))
    /\ last_scenario_returns' = <<>>
    /\ eval_i' = 0
    /\ eval_pc' = "loop"
    /\ UNCHANGED << population, config, eval_scenario_returns, performance_metrics_in_scenario,
                    eval_drawn, result >>
    /\ UNCHANGED svcVars

\* the test of line 33
EvalIsLastTrial(idx, simulations) == idx = simulations - 1

\* one pass of the loop head: sample, keep the last scenario (lines 31-35)
EvalSampleScenario ==
    /\ eval_pc = "loop"
    /\ eval_i < config.simulations_per_generation
    /\ \E s \in Scenarios :
          /\ eval_scenario_returns' = s
          /\ eval_drawn' = Append(eval_drawn, s)
          /\ last_scenario_returns' =
                IF EvalIsLastTrial(eval_i, config.simulations_per_generation)
                THEN s ELSE last_scenario_returns
    /\ performance_metrics_in_scenario' = [idx \in 1..Len(population) |-> Pending]
    /\ eval_pc' = "map"
    /\ UNCHANGED << population, config, accumulated_returns, accumulated_volatilities,
                    accumulated_sharpe_ratios, eval_i, result >>
    /\ UNCHANGED svcVars

EvalCollectSlotReversed(idx, n) == n + 1 - idx
\* the slot of the collected vector that the item at position idx fills (lines 37-53)
EvalCollectSlot(idx, n) == idx

\* a rayon worker scores one portfolio of the current trial (lines 39-52)
EvalScorePortfolio ==
    /\ eval_pc = "map"
    /\ \E idx \in 1..Len(population) :
          /\ performance_metrics_in_scenario[EvalCollectSlot(idx, Len(population))] = Pending
          /\ ~PerformanceFaults(eval_scenario_returns, config)
          /\ performance_metrics_in_scenario' =
                [performance_metrics_in_scenario EXCEPT ![EvalCollectSlot(idx, Len(population))] =
                    compute_portfolio_performance(eval_scenario_returns, population[idx], config)]
    /\ UNCHANGED << eval_pc, population, config, accumulated_returns, accumulated_volatilities,
                    accumulated_sharpe_ratios, last_scenario_returns, eval_i,
                    eval_scenario_returns, eval_drawn, result >>
    /\ UNCHANGED svcVars

\* compute_portfolio_performance panics: nothing catches it, the caller unwinds
EvalScorePanic ==
    /\ eval_pc = "map"
    /\ \E idx \in 1..Len(population) :
          /\ performance_metrics_in_scenario[idx] = Pending
          /\ PerformanceFaults(eval_scenario_returns, config)
    /\ result' = [status |-> "panic"]
    /\ eval_pc' = "aborted"
    /\ UNCHANGED << population, config, accumulated_returns, accumulated_volatilities,
                    accumulated_sharpe_ratios, last_scenario_returns, eval_i,
                    eval_scenario_returns, performance_metrics_in_scenario, eval_drawn >>
    /\ UNCHANGED svcVars

\* lines 56-58: acc[idx] += m
EvalAddMetric(acc, m) == acc + m

\* the sequential accumulation after collect (lines 55-59), then the next pass
EvalAccumulate ==
    /\ eval_pc = "map"
    /\ \A idx \in 1..Len(population) : performance_metrics_in_scenario[idx] # Pending
    /\ accumulated_returns' =
          [idx \in 1..Len(population) |->
              EvalAddMetric(accumulated_returns[idx], performance_metrics_in_scenario[idx][1])]
    /\ accumulated_volatilities' =
          [idx \in 1..Len(population) |->
              EvalAddMetric(accumulated_volatilities[idx], performance_metrics_in_scenario[idx][2])]
    /\ accumulated_sharpe_ratios' =
          [idx \in 1..Len(population) |->
              EvalAddMetric(accumulated_sharpe_ratios[idx], performance_metrics_in_scenario[idx][3])]
    /\ eval_i' = eval_i + 1
    /\ eval_pc' = "loop"
    /\ UNCHANGED << population, config, last_scenario_returns, eval_scenario_returns,
                    performance_metrics_in_scenario, eval_drawn, result >>
    /\ UNCHANGED svcVars

AveragesByPopulation(sums, sim_count) == [idx \in 1..Len(sums) |-> Rat(sums[idx], Len(sums))]
\* lines 63-76: sum / sim_count_f64, in input order
Averages(sums, sim_count) == [idx \in 1..Len(sums) |-> Rat(sums[idx], sim_count)]

\* fold(|| NEG_INFINITY, max).reduce(|| NEG_INFINITY, max)
RECURSIVE FoldMax(_, _)
FoldMax(s, acc) == IF s = <<>> THEN acc ELSE FoldMax(Tail(s), RatMax(acc, Head(s)))

\* fold(|| INFINITY, min).reduce(|| INFINITY, min)
RECURSIVE FoldMin(_, _)
FoldMin(s, acc) == IF s = <<>> THEN acc ELSE FoldMin(Tail(s), RatMin(acc, Head(s)))

\* lines 82-85
BestReturn(average_returns) == FoldMax(average_returns, NEG_INFINITY)
WorstVolatility(average_volatilities) == FoldMax(average_volatilities, NEG_INFINITY)
\* lines 88-91
BestVolatility(average_volatilities) == FoldMin(average_volatilities, INFINITY)
\* lines 95-98
BestSharpe(average_sharpe_ratios) == FoldMax(average_sharpe_ratios, NEG_INFINITY)
\* lines 86, 92-93, 99-100: sum / population_size_f64
PopulationAverage(averages) == RatDivInt(RatSum(averages), Len(averages))

\* the loop is over: averages, summary statistics, the result (lines 62-115)
EvalFinish ==
    /\ eval_pc = "loop"
    /\ eval_i >= config.simulations_per_generation
    /\ LET average_returns == Averages(accumulated_returns, config.simulations_per_generation)
           average_volatilities ==
               Averages(accumulated_volatilities, config.simulations_per_generation)
           average_sharpe_ratios ==
               Averages(accumulated_sharpe_ratios, config.simulations_per_generation)
       IN  result' = [status |-> "ok",
                      average_returns |-> average_returns,
                      average_volatilities |-> average_volatilities,
                      average_sharpe_ratios |-> average_sharpe_ratios,
                      last_scenario_returns |-> last_scenario_returns,
                      best_return |-> BestReturn(average_returns),
                      population_average_return |-> PopulationAverage(average_returns),
                      best_volatility |-> BestVolatility(average_volatilities),
                      population_average_volatility |-> PopulationAverage(average_volatilities),
                      best_sharpe |-> BestSharpe(average_sharpe_ratios),
                      population_average_sharpe |-> PopulationAverage(average_sharpe_ratios)]
    /\ eval_pc' = "done"
    /\ UNCHANGED << population, config, accumulated_returns, accumulated_volatilities,
                    accumulated_sharpe_ratios, last_scenario_returns, eval_i,
                    eval_scenario_returns, performance_metrics_in_scenario, eval_drawn >>
    /\ UNCHANGED svcVars

evaluate_population_performance ==
    \/ EvalCall
    \/ EvalEmptyPopulation
    \/ EvalPrepare
    \/ EvalSampleScenario
    \/ EvalScorePortfolio
    \/ EvalScorePanic
    \/ EvalAccumulate
    \/ EvalFinish

(***************************************************************************)
(* Specifications.                                                         *)
(***************************************************************************)
\* the batch service with every call in flight
Next == \E c \in Calls : run_batch(c)

Spec == Init /\ [][Next]_vars

\* one evaluation
EvalNext == evaluate_population_performance

EvalSpec == Init /\ [][EvalNext]_vars

\* one evaluation beside one batch call
PairNext == evaluate_population_performance \/ run_batch(1)

PairSpec == Init /\ [][PairNext]_vars

\* the batch service on a pool with a thread for every call: workers overlap
run_batch_ample(c) ==
    \/ Arrive(c)
    \/ DecodeFail(c)
    \/ SpawnBlocking(c)
    \/ WorkerStartAmple(c)
    \/ SampleScenario(c)
    \/ ScorePortfolio(c)
    \/ ScorePanic(c)
    \/ Accumulate(c)
    \/ WorkerReturn(c)
    \/ AwaitOk(c)
    \/ AwaitPanic(c)

AmpleNext == \E c \in Calls : run_batch_ample(c)

AmpleSpec == Init /\ [][AmpleNext]_vars

\* the batch service with callers that may disconnect
CancelNext == \E c \in Calls : run_batch(c) \/ Disconnect(c) \/ DiscardResult(c)

CancelSpec == Init /\ [][CancelNext]_vars

\* the handler and the worker of a call that has arrived keep being scheduled
Progress(c) ==
    \/ DecodeFail(c)
    \/ SpawnBlocking(c)
    \/ WorkerStart(c)
    \/ SampleScenario(c)
    \/ ScorePortfolio(c)
    \/ ScorePanic(c)
    \/ Accumulate(c)
    \/ WorkerReturn(c)
    \/ AwaitOk(c)
    \/ AwaitPanic(c)

LiveSpec == Init /\ [][Next]_vars /\ \A c \in Calls : WF_vars(Progress(c))

\* the same with callers that may disconnect; a disconnection is never forced
CancelLiveSpec ==
    Init /\ [][CancelNext]_vars /\ \A c \in Calls : WF_vars(Progress(c) \/ DiscardResult(c))

(***************************************************************************)
(* Properties.                                                             *)
(***************************************************************************)
Range(s) == { s[k] : k \in 1..Len(s) }

\* the sum, over the scenarios, of one metric of one portfolio
MetricSum(weights, cfg, scenarios, field) ==
    SumSeq([t \in 1..Len(scenarios) |->
               compute_portfolio_performance(scenarios[t], weights, cfg)[field]])

C2_AveragesAlignedWithPopulation ==
    eval_pc = "done" =>
        LET k == config.simulations_per_generation IN
        /\ Len(result.average_returns) = Len(population)
        /\ Len(result.average_volatilities) = Len(population)
        /\ Len(result.average_sharpe_ratios) = Len(population)
        /\ \A idx \in 1..Len(population) :
              /\ result.average_returns[idx] =
                    Rat(MetricSum(population[idx], config, eval_drawn, 1), k)
              /\ result.average_volatilities[idx] =
                    Rat(MetricSum(population[idx], config, eval_drawn, 2), k)
              /\ result.average_sharpe_ratios[idx] =
                    Rat(MetricSum(population[idx], config, eval_drawn, 3), k)

C2_Witness ==
    /\ eval_pc = "done"
    /\ Len(population) = 2
    /\ result.average_returns[1] # result.average_returns[2]
    /\ result.average_volatilities[1] # result.average_volatilities[2]

C4_ReplyIsRawSums ==
    \A c \in Calls :
        response[c].status = "ok" =>
            LET input == Deserialize(request[c].portfolios_blob).value
                cfg == request[c].config
            IN  /\ Len(drawn[c]) = request[c].iterations
                /\ Len(response[c].sum_returns) = Len(input)
                /\ Len(response[c].sum_volatilities) = Len(input)
                /\ Len(response[c].sum_sharpes) = Len(input)
                /\ \A idx \in 1..Len(input) :
                      /\ response[c].sum_returns[idx] = MetricSum(input[idx], cfg, drawn[c], 1)
                      /\ response[c].sum_volatilities[idx] = MetricSum(input[idx], cfg, drawn[c], 2)
                      /\ response[c].sum_sharpes[idx] = MetricSum(input[idx], cfg, drawn[c], 3)

C4_Witness ==
    \E c \in Calls :
        /\ response[c].status = "ok"
        /\ request[c].iterations = 2
        /\ Len(portfolios[c]) = 2
        /\ drawn[c][1] # drawn[c][2]
        /\ response[c].sum_returns[1] # response[c].sum_returns[2]
        /\ response[c].sum_volatilities[1] # 0

\* C5: called with an empty population the evaluator ends with the
\* structured error EmptyPopulationError, without sampling and without
\* terminating abruptly
C5_EmptyPopulationStructuredError ==
    (eval_pc \notin {"idle", "entry"} /\ Len(population) = 0) =>
        /\ result.status = "EmptyPopulationError"
        /\ eval_drawn = <<>>

\* C6: a batch request that decodes but has an empty population, a zero
\* money_to_invest or a zero time_horizon_in_days never samples, never
\* scores, and is answered with a request rejection
C6_PreconditionsRejectedBeforeWork ==
    \A c \in Calls :
        ( /\ pc[c] \notin {"idle", "handler"}
          /\ Deserialize(request[c].portfolios_blob).ok
          /\ \/ Len(portfolios[c]) = 0
             \/ request[c].config.money_to_invest = 0
             \/ request[c].config.time_horizon_in_days = 0 )
        => /\ drawn[c] = <<>>
           /\ \A idx \in DOMAIN metrics[c] : metrics[c][idx] = Pending
           /\ pc[c] = "done" => response[c].status = "invalid_argument"

\* C7: the serving process survives every panic of a worker closure, the
\* call whose closure panicked is answered "internal", and every call in
\* flight then or arriving later still gets its response
C7_WorkerFaultIsInternal ==
    /\ [](server_alive)
    /\ [][\A c \in Calls : (pc[c] = "panicked" /\ pc'[c] # "panicked")
              => (pc'[c] = "done" /\ response'[c].status = "internal")]_vars
    /\ [](\A c \in Calls : response[c].status = "internal" =>
              PerformanceFaults(scenario_returns[c], request[c].config))
    /\ \A d \in Calls :
          ( /\ \E c \in Calls : pc[c] = "panicked" \/ response[c].status = "internal"
            /\ pc[d] \notin {"idle", "done"} )
              ~> (pc[d] = "done" /\ response[d].status # "none")

C7_Witness ==
    \E c \in Calls, d \in Calls :
        /\ response[c].status = "internal"
        /\ response[d].status = "ok"
        /\ drawn[d] # <<>>
        /\ Len(portfolios[d]) > 0
        /\ server_alive

\* C8: a request whose blob does not decode is answered invalid_argument;
\* no closure is ever queued or run for it and nothing is sampled
C8_MalformedBlobRejected ==
    \A c \in Calls :
        (pc[c] # "idle" /\ ~Deserialize(request[c].portfolios_blob).ok) =>
            /\ pc[c] \in {"handler", "done"}
            /\ c \notin Range(blocking_queue)
            /\ drawn[c] = <<>>
            /\ pc[c] = "done" => response[c].status = "invalid_argument"

C8_Witness ==
    \E c \in Calls :
        /\ pc[c] = "done"
        /\ ~Deserialize(request[c].portfolios_blob).ok
        /\ response[c].status = "invalid_argument"

\* C9: never more than PoolSize closures run at once, a spawned closure
\* stays queued until it runs, and under fair scheduling every queued call
\* is eventually answered
C9_BoundedPoolNoLoss ==
    /\ [](Cardinality(Running) <= PoolSize)
    /\ [](\A c \in Calls : pc[c] = "queued" <=> c \in Range(blocking_queue))
    /\ \A c \in Calls :
          (pc[c] = "queued") ~> (pc[c] = "done" /\ response[c].status # "none")

C9_Witness ==
    \E c \in Calls, d \in Calls :
        /\ Cardinality(Running) = PoolSize
        /\ pc[c] = "map"
        /\ pc[d] = "queued"

\* C10: after k >= 1 trials the retained scenario is the one drawn in trial
\* k, unchanged, and it is the scenario of the last accumulation
C10_LastScenarioIsFinalDraw ==
    /\ \A c \in Calls :
          /\ (pc[c] = "loop" /\ i[c] >= 1 /\ i[c] = request[c].iterations) =>
                /\ last_scenario[c] = drawn[c][request[c].iterations]
                /\ last_scenario[c] = scenario_returns[c]
          /\ (response[c].status = "ok" /\ request[c].iterations >= 1) =>
                response[c].last_scenario = drawn[c][request[c].iterations]
    /\ (eval_pc = "loop" /\ eval_i = config.simulations_per_generation) =>
          /\ last_scenario_returns = eval_drawn[config.simulations_per_generation]
          /\ last_scenario_returns = eval_scenario_returns
    /\ eval_pc = "done" =>
          result.last_scenario_returns = eval_drawn[config.simulations_per_generation]

C10_Witness ==
    /\ response[1].status = "ok"
    /\ request[1].iterations = 2
    /\ drawn[1][1] # drawn[1][2]
    /\ eval_pc = "done"
    /\ config.simulations_per_generation = 2
    /\ eval_drawn[1] # eval_drawn[2]


\* C11: trials are sequential.  A scenario is drawn only at the loop head,
\* one per trial, when every portfolio of the trial before has been scored
\* and accumulated; a portfolio is scored only against the scenario drawn
\* for its trial; a run of k trials draws exactly k scenarios
C11_TrialsAreSequential ==
    /\ [](\A c \in Calls :
            /\ pc[c] = "loop" => Len(drawn[c]) = i[c]
            /\ pc[c] = "map" =>
                  /\ Len(drawn[c]) = i[c] + 1
                  /\ scenario_returns[c] = drawn[c][i[c] + 1]
            /\ response[c].status = "ok" => Len(drawn[c]) = request[c].iterations)
    /\ [](/\ eval_pc = "loop" => Len(eval_drawn) = eval_i
          /\ eval_pc = "map" =>
                /\ Len(eval_drawn) = eval_i + 1
                /\ eval_scenario_returns = eval_drawn[eval_i + 1]
          /\ eval_pc = "done" => Len(eval_drawn) = config.simulations_per_generation)
    /\ [][\A c \in Calls :
            /\ drawn'[c] # drawn[c] =>
                  /\ pc[c] = "loop"
                  /\ drawn'[c] = Append(drawn[c], scenario_returns'[c])
                  /\ \A idx \in DOMAIN metrics[c] : i[c] > 0 => metrics[c][idx] # Pending
                  /\ \A idx \in DOMAIN metrics'[c] : metrics'[c][idx] = Pending
            /\ \A idx \in DOMAIN metrics[c] :
                  (pc[c] = "map" /\ metrics[c][idx] = Pending /\ metrics'[c][idx] # Pending) =>
                      /\ drawn'[c] = drawn[c]
                      /\ i'[c] = i[c]
            /\ i'[c] # i[c] =>
                  \/ i'[c] = 0
                  \/ /\ i'[c] = i[c] + 1
                     /\ pc[c] = "map"
                     /\ \A idx \in DOMAIN metrics[c] : metrics[c][idx] # Pending]_vars
    /\ [][/\ eval_drawn' # eval_drawn =>
                /\ eval_pc = "loop"
                /\ eval_drawn' = Append(eval_drawn, eval_scenario_returns')
                /\ \A idx \in DOMAIN performance_metrics_in_scenario :
                      eval_i > 0 => performance_metrics_in_scenario[idx] # Pending
          /\ eval_i' # eval_i =>
                \/ eval_i' = 0
                \/ /\ eval_i' = eval_i + 1
                   /\ eval_pc = "map"
                   /\ \A idx \in DOMAIN performance_metrics_in_scenario :
                         performance_metrics_in_scenario[idx] # Pending]_vars

C11_Witness ==
    /\ pc[1] = "map"
    /\ i[1] = 1
    /\ Len(portfolios[1]) = 2
    /\ metrics[1][2] # Pending
    /\ metrics[1][1] = Pending
    /\ drawn[1][1] # drawn[1][2]
    /\ eval_pc = "map"
    /\ eval_i = 1
    /\ Len(population) = 2


\* the scenarios of the first n trials
FirstTrials(scenarios, n) == SubSeq(scenarios, 1, n)

\* C12: whatever order the workers score in, a filled slot idx of the
\* collected vector holds the metrics of portfolio idx for the scenario of
\* the trial, and after j accumulated trials accumulator entry idx is the
\* sum of the metric of portfolio idx over those j trials: one addition per
\* trial, none lost, none while the map is still running
C12_NoLostUpdate ==
    /\ \A c \in Calls :
          pc[c] \in {"loop", "map", "returned"} =>
              LET cfg == request[c].config
                  done == FirstTrials(drawn[c], i[c])
              IN  \A idx \in 1..Len(portfolios[c]) :
                     /\ sum_returns[c][idx] = MetricSum(portfolios[c][idx], cfg, done, 1)
                     /\ sum_vols[c][idx] = MetricSum(portfolios[c][idx], cfg, done, 2)
                     /\ sum_sharpes[c][idx] = MetricSum(portfolios[c][idx], cfg, done, 3)
                     /\ (pc[c] = "map" /\ metrics[c][idx] # Pending) =>
                            metrics[c][idx] =
                                compute_portfolio_performance(scenario_returns[c],
                                                              portfolios[c][idx], cfg)
    /\ eval_pc \in {"loop", "map", "done"} =>
          LET done == FirstTrials(eval_drawn, eval_i)
          IN  \A idx \in 1..Len(population) :
                 /\ accumulated_returns[idx] = MetricSum(population[idx], config, done, 1)
                 /\ accumulated_volatilities[idx] = MetricSum(population[idx], config, done, 2)
                 /\ accumulated_sharpe_ratios[idx] = MetricSum(population[idx], config, done, 3)
                 /\ (eval_pc = "map" /\ performance_metrics_in_scenario[idx] # Pending) =>
                        performance_metrics_in_scenario[idx] =
                            compute_portfolio_performance(eval_scenario_returns,
                                                          population[idx], config)

\* the second portfolio was scored before the first, in the second trial
C12_Witness ==
    /\ pc[1] = "map"
    /\ i[1] = 1
    /\ Len(portfolios[1]) = 2
    /\ metrics[1][2] # Pending
    /\ metrics[1][1] = Pending
    /\ sum_returns[1][1] # sum_returns[1][2]
    /\ eval_pc = "map"
    /\ eval_i = 1
    /\ Len(population) = 2
    /\ performance_metrics_in_scenario[1] # Pending
    /\ performance_metrics_in_scenario[2] = Pending


\* what a call answers when it runs alone on `req` and the sampler returns `scenarios`
AloneResponse(req, scenarios) ==
    LET decoded == Deserialize(req.portfolios_blob)
        ps == decoded.value
    IN  IF ~decoded.ok THEN [status |-> "invalid_argument"]
        ELSE IF scenarios # <<>> /\ ps # <<>> /\ PerformanceFaults(scenarios[1], req.config)
        THEN [status |-> "internal"]
        ELSE [status |-> "ok",
              sum_returns |-> [idx \in 1..Len(ps) |-> MetricSum(ps[idx], req.config, scenarios, 1)],
              sum_volatilities |->
                  [idx \in 1..Len(ps) |-> MetricSum(ps[idx], req.config, scenarios, 2)],
              sum_sharpes |-> [idx \in 1..Len(ps) |-> MetricSum(ps[idx], req.config, scenarios, 3)],
              last_scenario |-> IF scenarios = <<>> THEN <<>> ELSE scenarios[Len(scenarios)]]

\* everything a call owns
Private(c) ==
    << pc[c], request[c], portfolios[c], sum_returns[c], sum_vols[c], sum_sharpes[c],
       last_scenario[c], i[c], scenario_returns[c], metrics[c], drawn[c], response[c] >>

\* C13: with workers of several calls running at once, no step changes what
\* two calls own, and every answer is the one the call gives alone on its
\* own request and the scenarios its own sampler clone returned
C13_CallsDoNotInterfere ==
    /\ [](\A c \in Calls :
             pc[c] = "done" => response[c] = AloneResponse(request[c], drawn[c]))
    /\ [][\A c \in Calls, d \in Calls :
             c # d => (Private(c)' = Private(c) \/ Private(d)' = Private(d))]_vars

\* both workers are in the parallel map of their second trial, on different
\* populations and different scenarios
C13_Witness ==
    /\ pc[1] = "map"
    /\ pc[2] = "map"
    /\ i[1] = 1
    /\ i[2] = 1
    /\ Len(portfolios[1]) = 2
    /\ Len(portfolios[2]) = 2
    /\ portfolios[1] # portfolios[2]
    /\ drawn[1] # drawn[2]
    /\ sum_returns[1] # sum_returns[2]


\* C14: while closures occupy pool threads, even all of them, the handlers
\* are not held up: a call can still arrive, a request with a malformed blob
\* can be rejected at once, a well-formed one can be queued, and a finished
\* closure can be awaited
C14_HandlersNeverBlocked ==
    Running # {} =>
        \A c \in Calls :
            /\ pc[c] = "idle" => ENABLED Arrive(c)
            /\ (pc[c] = "handler" /\ ~Deserialize(request[c].portfolios_blob).ok) =>
                  ENABLED DecodeFail(c)
            /\ (pc[c] = "handler" /\ Deserialize(request[c].portfolios_blob).ok) =>
                  ENABLED SpawnBlocking(c)
            /\ pc[c] = "returned" => ENABLED AwaitOk(c)
            /\ pc[c] = "panicked" => ENABLED AwaitPanic(c)

\* every pool thread is busy in the middle of a batch and a request with a
\* malformed blob is in its handler
C14_Witness ==
    \E c \in Calls, d \in Calls :
        /\ Cardinality(Running) = PoolSize
        /\ pc[d] = "map"
        /\ i[d] = 1
        /\ pc[c] = "handler"
        /\ ~Deserialize(request[c].portfolios_blob).ok


\* C15: a call whose handler was dropped is never answered; its closure is
\* not stopped: when it has ended it has drawn every trial of the request and
\* holds the sums the call would have returned (or it faulted as it would
\* have with the caller connected); once ended it holds no pool thread, so
\* the closure at the head of the queue can start; and from some point on
\* every dropped call has ended (a dropped call stays dropped)
C15_NoCancellation ==
    /\ [](\A c \in Calls : handler_dropped[c] => response[c] = NoResponse)
    /\ [](\A c \in Calls :
             (handler_dropped[c] /\ pc[c] = "done") =>
                 LET alone == AloneResponse(request[c], drawn[c])
                 IN  /\ alone.status \in {"ok", "internal"}
                     /\ alone.status = "ok" =>
                           /\ Len(drawn[c]) = request[c].iterations
                           /\ i[c] = request[c].iterations
                           /\ sum_returns[c] = alone.sum_returns
                           /\ sum_vols[c] = alone.sum_volatilities
                           /\ sum_sharpes[c] = alone.sum_sharpes
                           /\ last_scenario[c] = alone.last_scenario)
    /\ [][\A c \in Calls :
             (handler_dropped'[c] /\ ~handler_dropped[c]) => Private(c)' = Private(c)]_vars
    /\ [](\A c \in Calls :
             (handler_dropped[c] /\ pc[c] \in {"returned", "panicked", "done"}) =>
                 /\ c \notin Running
                 /\ (blocking_queue # <<>> /\ Cardinality(Running) < PoolSize) =>
                        ENABLED WorkerStart(Head(blocking_queue)))
    /\ <>[](\A c \in Calls : handler_dropped[c] => pc[c] = "done")

\* a dropped call ran both trials of its request to the end and was never
\* answered, and the other call has since had the thread and its answer
C15_Witness ==
    \E c \in Calls, d \in Calls :
        /\ handler_dropped[c]
        /\ pc[c] = "done"
        /\ response[c] = NoResponse
        /\ request[c].iterations = 2
        /\ Len(drawn[c]) = 2
        /\ Len(portfolios[c]) = 2
        /\ sum_returns[c] # Zeros(2)
        /\ ~handler_dropped[d]
        /\ response[d].status = "ok"
        /\ drawn[d] # <<>>


\* the evaluation and call 1 were given the same population and the same
\* money, rate and horizon
SameInputs ==
    /\ eval_pc \in {"loop", "map", "done"}
    /\ pc[1] \in {"loop", "map", "returned", "done"}
    /\ population # <<>>
    /\ population = portfolios[1]
    /\ config.money_to_invest = request[1].config.money_to_invest
    /\ config.risk_free_rate = request[1].config.risk_free_rate
    /\ config.time_horizon_in_days = request[1].config.time_horizon_in_days

\* C16: on the same non-empty population and config, with the sampler
\* returning the same scenarios: after the same number of trials the two
\* loops hold the same accumulators (and, when both were asked for the same
\* count, the same retained scenario), and when both ran k >= 1 trials every
\* average of the evaluator is the batch sum of that portfolio divided by k
\* and both kept the same last scenario
C16_EvaluatorIsBatchOverK ==
    /\ (SameInputs /\ eval_pc = "loop" /\ pc[1] = "loop" /\ eval_i = i[1]
          /\ eval_drawn = drawn[1]) =>
            /\ accumulated_returns = sum_returns[1]
            /\ accumulated_volatilities = sum_vols[1]
            /\ accumulated_sharpe_ratios = sum_sharpes[1]
            /\ config.simulations_per_generation = request[1].iterations =>
                   last_scenario_returns = last_scenario[1]
    /\ (SameInputs /\ eval_pc = "done" /\ result.status = "ok"
          /\ pc[1] = "done" /\ response[1].status = "ok"
          /\ config.simulations_per_generation = request[1].iterations
          /\ eval_drawn = drawn[1]) =>
            LET k == request[1].iterations
            IN  /\ k >= 1
                /\ Len(result.average_returns) = Len(population)
                /\ Len(response[1].sum_returns) = Len(population)
                /\ \A idx \in 1..Len(population) :
                      /\ result.average_returns[idx] = Rat(response[1].sum_returns[idx], k)
                      /\ result.average_volatilities[idx] =
                             Rat(response[1].sum_volatilities[idx], k)
                      /\ result.average_sharpe_ratios[idx] =
                             Rat(response[1].sum_sharpes[idx], k)
                /\ result.last_scenario_returns = response[1].last_scenario

\* both ran two trials on the same two portfolios and the same two different
\* scenarios, and the sums differ from the averages
C16_Witness ==
    /\ SameInputs
    /\ eval_pc = "done"
    /\ result.status = "ok"
    /\ response[1].status = "ok"
    /\ request[1].iterations = 2
    /\ config.simulations_per_generation = 2
    /\ eval_drawn = drawn[1]
    /\ drawn[1][1] # drawn[1][2]
    /\ Len(population) = 2
    /\ \E idx \in 1..2 : result.average_returns[idx] # Rat(response[1].sum_returns[idx], 1)


\* C17: a decoded request with iteration count 0 never enters the loop body:
\* the sampler is never called and the comparison with iterations - 1 in the
\* body is never reached, so the closure cannot fault; it returns, and the
\* answer is ok with three all-zero sequences of the population's length and
\* an empty last scenario
C17_ZeroIterationsSucceeds ==
    \A c \in Calls :
        (/\ pc[c] # "idle"
         /\ Deserialize(request[c].portfolios_blob).ok
         /\ request[c].iterations = 0) =>
            /\ drawn[c] = <<>>
            /\ pc[c] \notin {"map", "panicked"}
            /\ pc[c] = "loop" => (i[c] = 0 /\ ENABLED WorkerReturn(c)
                                    /\ ~ENABLED SampleScenario(c))
            /\ response[c].status \in {"none", "ok"}
            /\ (pc[c] = "done" /\ ~handler_dropped[c]) =>
                  /\ response[c].status = "ok"
                  /\ response[c].sum_returns = Zeros(Len(portfolios[c]))
                  /\ response[c].sum_volatilities = Zeros(Len(portfolios[c]))
                  /\ response[c].sum_sharpes = Zeros(Len(portfolios[c]))
                  /\ Len(response[c].sum_returns) =
                         Len(Deserialize(request[c].portfolios_blob).value)
                  /\ response[c].last_scenario = <<>>

\* a call with count 0 on two portfolios, and with nothing to invest, was
\* answered ok
C17_Witness ==
    \E c \in Calls :
        /\ request[c].iterations = 0
        /\ request[c].config.money_to_invest = 0
        /\ Len(portfolios[c]) = 2
        /\ pc[c] = "done"
        /\ response[c].status = "ok"
        /\ response[c].sum_returns = <<0, 0>>
        /\ response[c].last_scenario = <<>>

====
